---- MODULE Spec2Model ----
(***************************************************************************)
(* A model of the citation engine of tools/research_tools.py               *)
(* (CitationCheckerTool): _format_citation, the three author formatters,   *)
(* _validate_citation, _get_month and the batch loop of _run.              *)
(*                                                                         *)
(* A Python str is a TLA+ string; a Python value of a citation mapping is  *)
(* a record [t, s, n, l] tagged by its Python type.  A call that may raise *)
(* returns an outcome [raised, value, error].                              *)
(*                                                                         *)
(* Further parts: the ConfigManager of utils/config_manager.py with its    *)
(* dicts as objects with an identity, setup_logger of utils/logger.py,     *)
(* the report of utils/report_generator.py, and HarvardResearchCrew and    *)
(* the Streamlit script of main.py, one action per run of the script.      *)
(***************************************************************************)
EXTENDS Integers, Sequences, FiniteSets, TLC

VARIABLES
    month,                \* datetime.now().month, the wall clock
    ticks,                \* how often the month changed during the running call
    pc,                   \* "idle", "run" (inside the loop of _run), "returned"
    op,                   \* the method of the tool that was called last
    citations,            \* argument of _run
    citation,             \* argument of _format_citation / _validate_citation
    style,                \* argument of _run / _format_citation
    i,                    \* _run: number of loop iterations done (enumerate index)
    formatted_citations,  \* _run: local list
    validation_results,   \* _run: local list
    result,               \* _run: the returned mapping
    formatted,            \* outcome of the last direct _format_citation call
    validated,            \* outcome of the last direct _validate_citation call
    calls,                \* concurrent callers of _run: the locals of each one's call
    heap,                 \* ConfigManager: the dict objects, by identity
    default_config,       \* ConfigManager.default_config: the identity of a dict, 0 before __init__
    config,               \* ConfigManager.config: the identity of a dict, 0 before __init__
    config_file,          \* config/settings.json: absent, not JSON, or its JSON content
    cm_ret,               \* ConfigManager: the last method called and what it returned
    loggers,              \* logging: the level and the handlers of each named logger
    log_ret,              \* setup_logger: the arguments of the last call and whether it raised
    environ,              \* os.environ: the API keys that hold a non-empty value
    session_state,        \* st.session_state
    screen,               \* what the last run of the Streamlit script has put on the page
    run                   \* the last run of the script: the button pressed, what came of it

\* the variables of the logger and of the Streamlit application
app_vars == <<loggers, log_ret, environ, session_state, screen, run>>

\* the variables of the concurrent callers, the ConfigManager and the application
other_vars == <<calls, heap, default_config, config, config_file, cm_ret, loggers, log_ret,
                environ, session_state, screen, run>>

vars == <<month, ticks, pc, op, citations, citation, style, i, formatted_citations,
          validation_results, result, formatted, validated, calls, heap,
          default_config, config, config_file, cm_ret, loggers, log_ret, environ,
          session_state, screen, run>>

-----------------------------------------------------------------------------
(* Bounds of the model *)

\* the longest list of citations passed to _run
MaxBatch == 3

\* the longest list of authors of a record
MaxAuthors == 4

\* how often the month may change while one call of _run is running
MaxTicks == 1

-----------------------------------------------------------------------------
(* Python values *)

PyNone == [t |-> "none", s |-> "", n |-> 0, l |-> <<>>]

PyAbsent == [t |-> "absent", s |-> "", n |-> 0, l |-> <<>>]

PyStr(x) == [t |-> "str", s |-> x, n |-> 0, l |-> <<>>]

PyInt(k) == [t |-> "int", s |-> "", n |-> k, l |-> <<>>]

PyList(xs) == [t |-> "list", s |-> "", n |-> 0, l |-> xs]

\* bool(v): None, "", 0 and [] are falsy
Truthy(v) ==
    CASE v.t = "str" -> v.s # ""
      [] v.t = "int" -> v.n # 0
      [] v.t = "list" -> v.l # <<>>
      [] OTHER -> FALSE

TypeName(v) ==
    CASE v.t = "str" -> "str"
      [] v.t = "int" -> "int"
      [] v.t = "list" -> "list"
      [] OTHER -> "NoneType"

\* dict.get(field, default)
Get(d, field, default) == IF d[field].t = "absent" THEN default ELSE d[field]

DigitChars == "0123456789"

LowerChars == "abcdefghijklmnopqrstuvwxyz"

UpperChars == "ABCDEFGHIJKLMNOPQRSTUVWXYZ"

Char(s, k) == SubSeq(s, k, k)

RECURSIVE NatToStr(_)
NatToStr(k) ==
    IF k < 10 THEN Char(DigitChars, k + 1)
    ELSE NatToStr(k \div 10) \o Char(DigitChars, (k % 10) + 1)

\* str(int)
IntToStr(k) == IF k < 0 THEN "-" \o NatToStr(0 - k) ELSE NatToStr(k)

\* a check of the digit count the suggestion text speaks of, which the code does not make
isdigit_four_digits(s) ==
    /\ Len(s) = 4
    /\ \A k \in 1..Len(s) : \E d \in 1..Len(DigitChars) : Char(s, k) = Char(DigitChars, d)

\* str.isdigit(): at least one character and every character a digit
isdigit(s) ==
    /\ Len(s) > 0
    /\ \A k \in 1..Len(s) : \E d \in 1..Len(DigitChars) : Char(s, k) = Char(DigitChars, d)

UpperChar(c) ==
    IF \E k \in 1..Len(LowerChars) : Char(LowerChars, k) = c
    THEN Char(UpperChars, CHOOSE k \in 1..Len(LowerChars) : Char(LowerChars, k) = c)
    ELSE c

\* a comparison of styles that keeps the letter case
upper_keeps_case(s) == s

\* str.upper()
RECURSIVE upper(_)
upper(s) == IF s = "" THEN "" ELSE UpperChar(Char(s, 1)) \o upper(SubSeq(s, 2, Len(s)))

\* a join that collapses a list of several names
join_collapsing(sep, xs) ==
    IF xs = <<>> THEN ""
    ELSE IF Len(xs) = 1 THEN xs[1]
    ELSE xs[1] \o " et al."

\* sep.join(xs)
RECURSIVE join(_, _)
join(sep, xs) ==
    IF xs = <<>> THEN ""
    ELSE IF Len(xs) = 1 THEN xs[1]
    ELSE xs[1] \o sep \o join(sep, Tail(xs))

\* "{v}" inside an f-string: str(v) for the str and int values of a record
FormatValue(v) ==
    CASE v.t = "str" -> v.s
      [] v.t = "int" -> IntToStr(v.n)
      [] OTHER -> "None"

-----------------------------------------------------------------------------
(* Outcomes of a call: a returned value or a raised exception (str(e)) *)

Returned(v) == [raised |-> FALSE, value |-> v, error |-> ""]

NoValidation == [valid |-> FALSE, issues |-> <<>>, suggestions |-> <<>>]

RaisedStr(msg) == [raised |-> TRUE, value |-> "", error |-> msg]

RaisedValidation(msg) == [raised |-> TRUE, value |-> NoValidation, error |-> msg]

IndexErrorText == "list index out of range"

NoIsdigitText(v) == "'" \o TypeName(v) \o "' object has no attribute 'isdigit'"

-----------------------------------------------------------------------------
(* CitationCheckerTool *)

months ==
    << "January", "February", "March", "April", "May", "June",
       "July", "August", "September", "October", "November", "December" >>

\* an index into months that forgets the "- 1"
_get_month_off_by_one(now_month) == months[(now_month % Len(months)) + 1]

_get_month(now_month) == months[now_month]

\* authors[0]
FirstAuthor(authors) ==
    IF authors = <<>> THEN RaisedStr(IndexErrorText) ELSE Returned(authors[1])

_format_authors_apa(authors) ==
    IF Len(authors) = 1 THEN Returned(authors[1])
    ELSE IF Len(authors) = 2 THEN Returned(authors[1] \o " & " \o authors[2])
    ELSE LET first == FirstAuthor(authors)
         IN  IF first.raised THEN first ELSE Returned(first.value \o " et al.")

\* an MLA rule that collapses from three authors on
_format_authors_mla_from_three(authors) ==
    IF Len(authors) <= 2 THEN Returned(join(" and ", authors))
    ELSE Returned(authors[1] \o " et al.")

_format_authors_mla(authors) ==
    IF Len(authors) <= 3 THEN Returned(join(" and ", authors))
    ELSE Returned(authors[1] \o " et al.")

_format_authors_chicago(authors) ==
    IF Len(authors) <= 3 THEN Returned(join(", ", authors))
    ELSE Returned(authors[1] \o " et al.")

_format_citation(c, st, now_month) ==
    LET authors == Get(c, "authors", PyList(<<>>)).l
        title == FormatValue(Get(c, "title", PyStr("")))
        year == FormatValue(Get(c, "year", PyStr("")))
        journal == FormatValue(Get(c, "journal", PyStr("")))
        volume == FormatValue(Get(c, "volume", PyStr("")))
        issue == FormatValue(Get(c, "issue", PyStr("")))
        pages == FormatValue(Get(c, "pages", PyStr("")))
        style_upper == upper(st)
    IN  IF style_upper = "APA" THEN
            LET author_str == _format_authors_apa(authors)
            IN  IF author_str.raised THEN author_str
                ELSE Returned(author_str.value \o " (" \o year \o "). " \o title \o ". "
                              \o journal \o ", " \o volume \o "(" \o issue \o "), "
                              \o pages \o ".")
        ELSE IF style_upper = "MLA" THEN
            LET author_str == _format_authors_mla(authors)
            IN  IF author_str.raised THEN author_str
                ELSE Returned(author_str.value \o " \"" \o title \o ".\" " \o journal
                              \o ", vol. " \o volume \o ", no. " \o issue \o ", " \o year
                              \o ", pp. " \o pages \o ".")
        ELSE IF style_upper = "CHICAGO" THEN
            LET author_str == _format_authors_chicago(authors)
            IN  IF author_str.raised THEN author_str
                ELSE Returned(author_str.value \o " " \o year \o ". \"" \o title \o ".\" "
                              \o journal \o " " \o volume \o ", no. " \o issue \o " ("
                              \o _get_month(now_month) \o "): " \o pages \o ".")
        ELSE Returned(join(", ", authors) \o ". " \o title \o ". " \o journal \o ", "
                      \o year \o ".")

\* a list of required fields that forgets the journal
required_fields_without_journal == << "authors", "title", "year" >>

\* a list of required fields in another order
required_fields_title_first == << "title", "authors", "year", "journal" >>

required_fields == << "authors", "title", "year", "journal" >>

MissingIssue(field) == "Missing required field: " \o field

MissingSuggestion(field) == "Please provide the " \o field \o "."

YearIssue == "Invalid year format"

YearSuggestion == "Please provide the year as a 4-digit number."

\* the fields of required_fields for which `not citation.get(field)` holds, in order
MissingFields(c) ==
    SelectSeq(required_fields, LAMBDA field : ~Truthy(Get(c, field, PyNone)))

\* `year and not year.isdigit()`: only a str has isdigit
YearCheck(year) ==
    IF ~Truthy(year) THEN Returned(FALSE)
    ELSE IF year.t = "str" THEN Returned(~isdigit(year.s))
    ELSE [raised |-> TRUE, value |-> FALSE, error |-> NoIsdigitText(year)]

\* a verdict that tolerates one issue
IsValid_one_issue_tolerated(issues) == Len(issues) <= 1

IsValid(issues) == Len(issues) = 0

_validate_citation(c) ==
    LET missing == MissingFields(c)
        issues1 == [k \in 1..Len(missing) |-> MissingIssue(missing[k])]
        suggestions1 == [k \in 1..Len(missing) |-> MissingSuggestion(missing[k])]
        bad_year == YearCheck(Get(c, "year", PyStr("")))
        issues == IF bad_year.value THEN Append(issues1, YearIssue) ELSE issues1
        suggestions ==
            IF bad_year.value THEN Append(suggestions1, YearSuggestion) ELSE suggestions1
    IN  IF bad_year.raised THEN RaisedValidation(bad_year.error)
        ELSE Returned([valid |-> IsValid(issues), issues |-> issues,
                       suggestions |-> suggestions])

-----------------------------------------------------------------------------
(* The inputs a caller may pass *)

AuthorNames == << "Doe, J.", "Smith", "Jones", "Lee", "Kim", "Roe" >>

AuthorValues ==
    {PyAbsent} \cup {PyList(SubSeq(AuthorNames, 1, k)) : k \in 0..MaxAuthors}

TitleValues == {PyAbsent, PyStr(""), PyStr("X")}

\* a year is a str in the data model; AcademicSearchTool._search_source gives an int
YearValues ==
    {PyAbsent, PyStr(""), PyStr("2023"), PyStr("20a3"), PyStr("7"), PyStr("12345"),
     PyInt(2023), PyInt(0)}

JournalValues == {PyAbsent, PyStr(""), PyStr("Y")}

Cite(authors, title, year, journal, extras) ==
    [authors |-> authors, title |-> title, year |-> year, journal |-> journal,
     volume |-> IF extras THEN PyStr("4") ELSE PyAbsent,
     issue |-> IF extras THEN PyStr("2") ELSE PyAbsent,
     pages |-> IF extras THEN PyStr("10-20") ELSE PyAbsent,
     doi |-> PyAbsent]

Citations ==
    {Cite(a, t, y, j, e) : a \in AuthorValues, t \in TitleValues, y \in YearValues,
                           j \in JournalValues, e \in BOOLEAN}

NoCitation == Cite(PyAbsent, PyAbsent, PyAbsent, PyAbsent, FALSE)

\* the record of a search result of AcademicSearchTool._search_source ("arXiv")
SearchResult ==
    Cite(PyList(<<"Research Team">>), PyStr("Preprint"), PyInt(2024),
         PyStr("arXiv Preprint"), FALSE)

\* the records batches are made of: a complete one, one without authors and with a
\* malformed year, and a search result
BatchCitations ==
    { Cite(PyList(<<"Doe, J.">>), PyStr("X"), PyStr("2023"), PyStr("Y"), TRUE),
      Cite(PyAbsent, PyStr("X"), PyStr("20a3"), PyStr("Y"), TRUE),
      SearchResult }

RECURSIVE SeqsUpTo(_, _)
SeqsUpTo(S, k) ==
    IF k = 0 THEN {<<>>}
    ELSE LET shorter == SeqsUpTo(S, k - 1)
         IN  shorter \cup {Append(q, x) : q \in shorter, x \in S}

Batches == SeqsUpTo(BatchCitations, MaxBatch)

\* "Harvard" is a style the docstring of _run names
Styles == {"APA", "apa", "MLA", "Chicago", "UNKNOWN", "Harvard"}

BatchStyles == {"APA", "mla", "Chicago", "UNKNOWN"}

NoResult ==
    [style |-> "", original_count |-> 0, formatted_citations |-> <<>>,
     validation_results |-> <<>>]

\* the callers that run _run concurrently
Threads == {"t1", "t2"}

\* the locals of a call of _run that has not started
IdleFrame ==
    [pc |-> "idle", citations |-> <<>>, style |-> "", i |-> 0,
     formatted_citations |-> <<>>, validation_results |-> <<>>, result |-> NoResult]

\* no dict object exists
EmptyHeap == [id \in {} |-> id]

\* config/settings.json does not exist
NoFile == [state |-> "absent", data |-> {}]

\* a value that is not a dict, written as Python writes it: 30, 'APA', True
Scalar(tok) == [ref |-> FALSE, tok |-> tok, id |-> 0]

\* a reference to the dict object id
Ref(id) == [ref |-> TRUE, tok |-> "", id |-> id]

\* no method of the ConfigManager was called yet
NoReturn == [op |-> "none", key_path |-> "", ok |-> FALSE, value |-> Scalar("None")]

\* the loggers a program asks logging.getLogger for
LoggerNames == {"harvard_crew", "utils"}

\* a logger as logging.getLogger creates it: level NOTSET, no handler
NewLogger == [level |-> 0, handlers |-> <<>>]

\* setup_logger was not called yet
NoLogCall == [name |-> "", log_file |-> "", level |-> 0, raised |-> FALSE]

\* no execution summary
NoSummary ==
    [tasks_completed |-> 0, total_tasks |-> 0,
     completion_percentage |-> [num |-> 0, den |-> 1], overall_status |-> ""]

\* no mapping: the keys a mapping holds, and the values of those the model looks at
NoMapping == [keys |-> {}, error |-> "", research_topic |-> "", execution_summary |-> NoSummary]

\* no HarvardResearchCrew object
NoCrew == [api_keys |-> {}, crew |-> FALSE, agents |-> 0, tasks |-> 0]

\* st.session_state of a new session: no key is present
EmptySession ==
    [present |-> {}, research_topic |-> "", paper_requirements |-> "",
     execution_results |-> NoMapping, crew |-> NoCrew]

\* the page before the script has run
BlankScreen == [messages |-> {}, progress |-> 0, rendered |-> {}]

\* the script has not run yet
NoRun ==
    [button |-> "none", executed |-> FALSE, raised |-> FALSE, fault |-> "none",
     results |-> <<>>, returned |-> NoMapping, crew |-> NoCrew]

-----------------------------------------------------------------------------
(* The state machine: the clock, direct calls, and the loop of _run *)

Init ==
    /\ month \in 1..Len(months)
    /\ ticks = 0
    /\ pc = "idle"
    /\ op = "none"
    /\ citations = <<>>
    /\ citation = NoCitation
    /\ style = ""
    /\ i = 0
    /\ formatted_citations = <<>>
    /\ validation_results = <<>>
    /\ result = NoResult
    /\ formatted = Returned("")
    /\ validated = Returned(NoValidation)
    /\ calls = [t \in Threads |-> IdleFrame]
    /\ heap = EmptyHeap
    /\ default_config = 0
    /\ config = 0
    /\ config_file = NoFile
    /\ cm_ret = NoReturn
    /\ loggers = [name \in LoggerNames |-> NewLogger]
    /\ log_ret = NoLogCall
    /\ environ = {}
    /\ session_state = EmptySession
    /\ screen = BlankScreen
    /\ run = NoRun

\* the wall clock moves on to the next month, between calls or inside the loop of _run
Tick ==
    /\ pc \in {"idle", "run"}
    /\ pc = "run" => ticks < MaxTicks
    /\ month' = (month % Len(months)) + 1
    /\ ticks' = IF pc = "run" THEN ticks + 1 ELSE ticks
    /\ UNCHANGED <<pc, op, citations, citation, style, i, formatted_citations,
                   validation_results, result, formatted, validated>>
    /\ UNCHANGED other_vars

\* the tool serves one call at a time
CanCall == pc = "idle"

\* a caller invokes _format_citation(citation, style)
FormatCitation ==
    /\ CanCall
    /\ \E c \in Citations, st \in Styles :
          /\ citation' = c
          /\ style' = st
          /\ formatted' = _format_citation(c, st, month)
    /\ pc' = "returned"
    /\ op' = "_format_citation"
    /\ citations' = <<>>
    /\ i' = 0
    /\ formatted_citations' = <<>>
    /\ validation_results' = <<>>
    /\ result' = NoResult
    /\ validated' = Returned(NoValidation)
    /\ ticks' = 0
    /\ UNCHANGED month
    /\ UNCHANGED other_vars

\* a caller invokes _validate_citation(citation)
ValidateCitation ==
    /\ CanCall
    /\ \E c \in Citations :
          /\ citation' = c
          /\ validated' = _validate_citation(c)
    /\ pc' = "returned"
    /\ op' = "_validate_citation"
    /\ style' = ""
    /\ citations' = <<>>
    /\ i' = 0
    /\ formatted_citations' = <<>>
    /\ validation_results' = <<>>
    /\ result' = NoResult
    /\ formatted' = Returned("")
    /\ ticks' = 0
    /\ UNCHANGED month
    /\ UNCHANGED other_vars

\* _run is entered: the two lists are created empty
RunCall ==
    /\ CanCall
    /\ \E cs \in Batches, st \in BatchStyles :
          /\ citations' = cs
          /\ style' = st
    /\ pc' = "run"
    /\ op' = "_run"
    /\ citation' = NoCitation
    /\ i' = 0
    /\ formatted_citations' = <<>>
    /\ validation_results' = <<>>
    /\ result' = NoResult
    /\ formatted' = Returned("")
    /\ validated' = Returned(NoValidation)
    /\ ticks' = 0
    /\ UNCHANGED month
    /\ UNCHANGED other_vars

\* entries numbered from one
ValidationEntry_one_based(id, v) ==
    [citation_id |-> id + 1, valid |-> v.valid, issues |-> v.issues,
     suggestions |-> v.suggestions]

\* the entry appended by the try body: enumerate index and the validation
ValidationEntry(id, v) ==
    [citation_id |-> id, valid |-> v.valid, issues |-> v.issues,
     suggestions |-> v.suggestions]

\* an except branch that also appends a suggestion
FaultEntry_with_suggestion(id, error) ==
    [citation_id |-> id, valid |-> FALSE, issues |-> <<error>>,
     suggestions |-> <<"Please check the citation.">>]

\* the except branch: the entry appended for a record whose processing raised
FaultEntry(id, error) ==
    [citation_id |-> id, valid |-> FALSE, issues |-> <<error>>, suggestions |-> <<>>]

\* a loop that gives up at the first record that raises
RunIter_stops_at_fault ==
    /\ pc = "run"
    /\ i < Len(citations)
    /\ LET c == citations[i + 1]
           f == _format_citation(c, style, month)
           v == _validate_citation(c)
       IN  IF f.raised \/ v.raised THEN
               /\ validation_results' =
                     Append(validation_results,
                            FaultEntry(i, IF f.raised THEN f.error ELSE v.error))
               /\ i' = Len(citations)
               /\ UNCHANGED formatted_citations
           ELSE
               /\ formatted_citations' = Append(formatted_citations, f.value)
               /\ validation_results' = Append(validation_results, ValidationEntry(i, v.value))
               /\ i' = i + 1
    /\ UNCHANGED <<month, ticks, pc, op, citations, citation, style, result, formatted,
                   validated>>
    /\ UNCHANGED other_vars

\* a loop that clears each record it has processed in the caller's list
RunIter_consumes_input ==
    /\ pc = "run"
    /\ i < Len(citations)
    /\ LET c == citations[i + 1]
           f == _format_citation(c, style, month)
           v == _validate_citation(c)
       IN  IF f.raised THEN
               /\ validation_results' = Append(validation_results, FaultEntry(i, f.error))
               /\ UNCHANGED formatted_citations
           ELSE IF v.raised THEN
               /\ validation_results' = Append(validation_results, FaultEntry(i, v.error))
               /\ UNCHANGED formatted_citations
           ELSE
               /\ formatted_citations' = Append(formatted_citations, f.value)
               /\ validation_results' = Append(validation_results, ValidationEntry(i, v.value))
    /\ i' = i + 1
    /\ citations' = [citations EXCEPT ![i + 1] = NoCitation]
    /\ UNCHANGED <<month, ticks, pc, op, citation, style, result, formatted, validated>>
    /\ UNCHANGED other_vars

\* one iteration of the loop: the try body, or its except branch
RunIter ==
    /\ pc = "run"
    /\ i < Len(citations)
    /\ LET c == citations[i + 1]
           f == _format_citation(c, style, month)
           v == _validate_citation(c)
       IN  IF f.raised THEN
               /\ validation_results' = Append(validation_results, FaultEntry(i, f.error))
               /\ UNCHANGED formatted_citations
           ELSE IF v.raised THEN
               /\ validation_results' = Append(validation_results, FaultEntry(i, v.error))
               /\ UNCHANGED formatted_citations
           ELSE
               /\ formatted_citations' = Append(formatted_citations, f.value)
               /\ validation_results' = Append(validation_results, ValidationEntry(i, v.value))
    /\ i' = i + 1
    /\ UNCHANGED <<month, ticks, pc, op, citations, citation, style, result, formatted,
                   validated>>
    /\ UNCHANGED other_vars

\* the loop is over: the mapping is returned
RunReturn ==
    /\ pc = "run"
    /\ i = Len(citations)
    /\ result' = [style |-> style, original_count |-> Len(citations),
                  formatted_citations |-> formatted_citations,
                  validation_results |-> validation_results]
    /\ pc' = "returned"
    /\ UNCHANGED <<month, ticks, op, citations, citation, style, i, formatted_citations,
                   validation_results, formatted, validated>>
    /\ UNCHANGED other_vars

\* the caller has taken the returned value: nothing of the call is kept
Done ==
    /\ pc = "returned"
    /\ pc' = "idle"
    /\ op' = "none"
    /\ citations' = <<>>
    /\ citation' = NoCitation
    /\ style' = ""
    /\ i' = 0
    /\ formatted_citations' = <<>>
    /\ validation_results' = <<>>
    /\ result' = NoResult
    /\ formatted' = Returned("")
    /\ validated' = Returned(NoValidation)
    /\ ticks' = 0
    /\ UNCHANGED month
    /\ UNCHANGED other_vars

Next ==
    \/ Tick
    \/ FormatCitation
    \/ ValidateCitation
    \/ RunCall
    \/ RunIter
    \/ RunReturn
    \/ Done

Spec == Init /\ [][Next]_vars

-----------------------------------------------------------------------------
(* Concurrent callers of _run: each call has its own locals (lines 115-116), the
   tool object holds no attribute the calls write, and the clock is shared *)

\* the longest list of citations a concurrent caller passes
MaxThreadBatch == 2

\* the records concurrent callers pass: a complete one and one without authors
ThreadCitations ==
    { Cite(PyList(<<"Doe, J.">>), PyStr("X"), PyStr("2023"), PyStr("Y"), TRUE),
      Cite(PyAbsent, PyStr("X"), PyStr("20a3"), PyStr("Y"), TRUE) }

ThreadBatches == SeqsUpTo(ThreadCitations, MaxThreadBatch)

ThreadStyles == {"APA", "Chicago"}

\* one iteration of the loop on the locals of one call, the clock showing now_month
IterFrame(frame, now_month) ==
    LET c == frame.citations[frame.i + 1]
        f == _format_citation(c, frame.style, now_month)
        v == _validate_citation(c)
    IN  IF f.raised THEN
            [frame EXCEPT !.validation_results = Append(@, FaultEntry(frame.i, f.error)),
                          !.i = @ + 1]
        ELSE IF v.raised THEN
            [frame EXCEPT !.validation_results = Append(@, FaultEntry(frame.i, v.error)),
                          !.i = @ + 1]
        ELSE
            [frame EXCEPT !.formatted_citations = Append(@, f.value),
                          !.validation_results = Append(@, ValidationEntry(frame.i, v.value)),
                          !.i = @ + 1]

\* the return statement on the locals of one call
ReturnFrame(frame) ==
    [frame EXCEPT !.pc = "returned",
                  !.result = [style |-> frame.style,
                              original_count |-> Len(frame.citations),
                              formatted_citations |-> frame.formatted_citations,
                              validation_results |-> frame.validation_results]]

\* the month changes while no call is running
ThreadTick ==
    /\ \A t \in Threads : calls[t].pc = "idle"
    /\ month' = (month % Len(months)) + 1
    /\ UNCHANGED <<ticks, pc, op, citations, citation, style, i, formatted_citations,
                   validation_results, result, formatted, validated, calls, heap,
                   default_config, config, config_file, cm_ret>>
    /\ UNCHANGED app_vars

ThreadFrame ==
    UNCHANGED <<month, ticks, pc, op, citations, citation, style, i, formatted_citations,
                validation_results, result, formatted, validated, heap, default_config,
                config, config_file, cm_ret, loggers, log_ret, environ, session_state,
                screen, run>>

\* caller t enters _run
ThreadCall(t) ==
    /\ calls[t].pc = "idle"
    /\ \E cs \in ThreadBatches, st \in ThreadStyles :
          calls' = [calls EXCEPT ![t] = [IdleFrame EXCEPT !.pc = "run", !.citations = cs,
                                                          !.style = st]]
    /\ ThreadFrame

\* lists that are one object for all calls, as attributes of the tool would be
ThreadIter_shared_lists(t) ==
    /\ calls[t].pc = "run"
    /\ calls[t].i < Len(calls[t].citations)
    /\ LET shared == calls["t1"]
           after == IterFrame([calls[t] EXCEPT
                                  !.formatted_citations = shared.formatted_citations,
                                  !.validation_results = shared.validation_results], month)
       IN  calls' = [u \in Threads |->
                        IF u = t THEN after
                        ELSE IF u = "t1" THEN
                            [calls[u] EXCEPT
                                !.formatted_citations = after.formatted_citations,
                                !.validation_results = after.validation_results]
                        ELSE calls[u]]
    /\ ThreadFrame

\* caller t runs one iteration of the loop
ThreadIter(t) ==
    /\ calls[t].pc = "run"
    /\ calls[t].i < Len(calls[t].citations)
    /\ calls' = [calls EXCEPT ![t] = IterFrame(@, month)]
    /\ ThreadFrame

\* caller t leaves the loop and returns
ThreadReturn(t) ==
    /\ calls[t].pc = "run"
    /\ calls[t].i = Len(calls[t].citations)
    /\ calls' = [calls EXCEPT ![t] = ReturnFrame(@)]
    /\ ThreadFrame

\* caller t has taken the returned mapping
ThreadDone(t) ==
    /\ calls[t].pc = "returned"
    /\ calls' = [calls EXCEPT ![t] = IdleFrame]
    /\ ThreadFrame

NextThreads ==
    \/ ThreadTick
    \/ \E t \in Threads : ThreadCall(t)
    \/ \E t \in Threads : ThreadIter(t)
    \/ \E t \in Threads : ThreadReturn(t)
    \/ \E t \in Threads : ThreadDone(t)

SpecThreads == Init /\ [][NextThreads]_vars

-----------------------------------------------------------------------------
(* ConfigManager. Dicts are objects with an identity: heap maps an object id to the
   dict's content, a function from keys to Scalar(tok) or Ref(id). Two names that
   hold the same id are the same dict. *)

\* {}
EmptyDict == [key \in {} |-> Scalar("")]

\* d[key] = value
Put(d, key, value) == [k \in DOMAIN d \cup {key} |-> IF k = key THEN value ELSE d[k]]

\* the id a new object gets
NewId(h) == CHOOSE n \in 1..(Cardinality(DOMAIN h) + 1) :
                /\ n \notin DOMAIN h
                /\ \A m \in 1..(n - 1) : m \in DOMAIN h

\* a new dict object with content d
AllocDict(h, d) ==
    [heap |-> [id \in DOMAIN h \cup {NewId(h)} |-> IF id = NewId(h) THEN d ELSE h[id]],
     id |-> NewId(h)]

\* h[id][key] = value
PutIn(h, id, key, value) == [h EXCEPT ![id] = Put(@, key, value)]

\* the objects reachable from the objects of ids
RECURSIVE Reachable(_, _)
Reachable(h, ids) ==
    LET RefsOf(id) == {h[id][k].id : k \in {x \in DOMAIN h[id] : h[id][x].ref}}
        more == ids \cup UNION {RefsOf(id) : id \in ids}
    IN   IF more = ids THEN ids ELSE Reachable(h, more \cap DOMAIN h)

\* objects no name leads to any more are freed
Collect(h, roots) == [id \in Reachable(h, roots \cap DOMAIN h) |-> h[id]]

\* the dict literal of _get_default_config: four section dicts and the dict of them
_get_default_config(h) ==
    LET api == AllocDict(h, [timeout |-> Scalar("30"), max_retries |-> Scalar("3"),
                             rate_limit |-> Scalar("100")])
        research == AllocDict(api.heap,
                        [default_citation_style |-> Scalar("'APA'"),
                         max_search_results |-> Scalar("20"),
                         enable_plagiarism_check |-> Scalar("True"),
                         enable_data_analysis |-> Scalar("True"),
                         enable_presentation |-> Scalar("True")])
        agent == AllocDict(research.heap,
                        [verbose |-> Scalar("True"), memory |-> Scalar("True"),
                         max_rpm |-> Scalar("100"),
                         process_type |-> Scalar("'hierarchical'")])
        ui == AllocDict(agent.heap,
                        [theme |-> Scalar("'light'"), auto_save |-> Scalar("True"),
                         show_progress |-> Scalar("True")])
    IN  AllocDict(ui.heap, [api_settings |-> Ref(api.id),
                            research_settings |-> Ref(research.id),
                            agent_settings |-> Ref(agent.id),
                            ui_settings |-> Ref(ui.id)])

\* json.dump: the text of the dict id, as the set of its <<key path, value>> leaves;
\* an empty dict inside it is the leaf "{}"
RECURSIVE Dump(_, _, _)
Dump(h, id, prefix) ==
    UNION { LET v == h[id][k]
                path == Append(prefix, k)
            IN  IF ~v.ref THEN {<<path, v.tok>>}
                ELSE IF DOMAIN h[v.id] = {} THEN {<<path, "{}">>}
                ELSE Dump(h, v.id, path)
            : k \in DOMAIN h[id] }

\* the first keys of the leaves of a text
KeysOf(data) == {leaf[1][1] : leaf \in data}

\* the leaves below key
Below(data, key) ==
    {<<Tail(leaf[1]), leaf[2]>> : leaf \in {l \in data : l[1][1] = key /\ Len(l[1]) > 1}}

\* key holds a value that is not a dict
IsLeaf(data, key) == \E leaf \in data : leaf[1] = <<key>> /\ leaf[2] # "{}"

LeafTok(data, key) == (CHOOSE leaf \in data : leaf[1] = <<key>>)[2]

\* json.load: new dict objects for a text
RECURSIVE Load(_, _), LoadKeys(_, _, _, _)
Load(h, data) ==
    LET new == AllocDict(h, EmptyDict)
    IN  LoadKeys(new.heap, new.id, data, KeysOf(data))

LoadKeys(h, id, data, keys) ==
    IF keys = {} THEN [heap |-> h, id |-> id]
    ELSE LET key == CHOOSE k \in keys : TRUE
         IN  IF IsLeaf(data, key) THEN
                 LoadKeys(PutIn(h, id, key, Scalar(LeafTok(data, key))), id, data,
                          keys \ {key})
             ELSE
                 LET child == Load(h, Below(data, key))
                 IN  LoadKeys(PutIn(child.heap, id, key, Ref(child.id)), id, data,
                              keys \ {key})

\* _merge_configs(default, loaded): a copy of the dict default that shares the
\* values of default, with the keys of loaded written over it
RECURSIVE _merge_configs(_, _, _), MergeKeys(_, _, _, _)
_merge_configs(h, default, loaded) ==
    LET merged_into == AllocDict(h, h[default])
    IN  MergeKeys(merged_into.heap, merged_into.id, loaded, DOMAIN h[loaded])

\* the loop over loaded.items()
MergeKeys(h, merged_into, loaded, keys) ==
    IF keys = {} THEN [heap |-> h, id |-> merged_into]
    ELSE LET key == CHOOSE k \in keys : TRUE
             value == h[loaded][key]
         IN  IF key \in DOMAIN h[merged_into] /\ h[merged_into][key].ref /\ value.ref THEN
                 LET merged == _merge_configs(h, h[merged_into][key].id, value.id)
                 IN  MergeKeys(PutIn(merged.heap, merged_into, key, Ref(merged.id)), merged_into,
                               loaded, keys \ {key})
             ELSE
                 MergeKeys(PutIn(h, merged_into, key, value), merged_into, loaded, keys \ {key})

\* save_config(config): the file holds the text of the dict, or open() raised and
\* the file is as it was
save_config(h, id, file, written) ==
    IF written THEN [state |-> "valid", data |-> Dump(h, id, <<>>)] ELSE file

\* key_path.split('.')
RECURSIVE SplitFrom(_, _, _)
SplitFrom(s, k, part) ==
    IF k > Len(s) THEN <<part>>
    ELSE IF Char(s, k) = "." THEN <<part>> \o SplitFrom(s, k + 1, "")
    ELSE SplitFrom(s, k + 1, part \o Char(s, k))

Split(key_path) == SplitFrom(key_path, 1, "")

\* value = value[key] for each key; KeyError and TypeError are caught
RECURSIVE Walk(_, _, _)
Walk(h, value, keys) ==
    IF keys = <<>> THEN [raised |-> FALSE, value |-> value]
    ELSE IF value.ref /\ Head(keys) \in DOMAIN h[value.id] THEN
        Walk(h, h[value.id][Head(keys)], Tail(keys))
    ELSE [raised |-> TRUE, value |-> value]

\* get(key_path, default)
get(h, root, key_path, default) ==
    LET walked == Walk(h, Ref(root), Split(key_path))
    IN  IF walked.raised THEN default ELSE walked.value

\* the loop of set over keys[:-1]: a missing key gets a new empty dict; a value
\* that is not a dict raises TypeError
RECURSIVE Navigate(_, _, _)
Navigate(h, current, keys) ==
    IF keys = <<>> THEN [heap |-> h, current |-> current, raised |-> FALSE]
    ELSE IF ~current.ref THEN [heap |-> h, current |-> current, raised |-> TRUE]
    ELSE IF Head(keys) \notin DOMAIN h[current.id] THEN
        LET new == AllocDict(h, EmptyDict)
        IN  Navigate(PutIn(new.heap, current.id, Head(keys), Ref(new.id)), Ref(new.id),
                     Tail(keys))
    ELSE Navigate(h, h[current.id][Head(keys)], Tail(keys))

\* a set that leaves the parent dict with the one key it wrote
set_drops_siblings(h, root, key_path, value) ==
    LET keys == Split(key_path)
        parent == Navigate(h, Ref(root), SubSeq(keys, 1, Len(keys) - 1))
    IN  IF parent.raised \/ ~parent.current.ref THEN [heap |-> parent.heap, raised |-> TRUE]
        ELSE [heap |-> [parent.heap EXCEPT ![parent.current.id] =
                            Put(EmptyDict, keys[Len(keys)], value)],
              raised |-> FALSE]

\* set(key_path, value) up to the call of save_config
set(h, root, key_path, value) ==
    LET keys == Split(key_path)
        parent == Navigate(h, Ref(root), SubSeq(keys, 1, Len(keys) - 1))
    IN  IF parent.raised \/ ~parent.current.ref THEN [heap |-> parent.heap, raised |-> TRUE]
        ELSE [heap |-> PutIn(parent.heap, parent.current.id, keys[Len(keys)], value),
              raised |-> FALSE]

\* the texts config/settings.json can hold when the manager is constructed
FileTexts ==
    { {},
      {<<<<"api_settings", "timeout">>, "60">>},
      {<<<<"ui_settings">>, "'dark'">>},
      {<<<<"api_keys", "gemini_api_key">>, "'k'">>} }

\* a file json.load or the merge raises on, or a file with one of the texts
Files == {[state |-> "corrupt", data |-> {}]} \cup {[state |-> "valid", data |-> d] : d \in FileTexts}

\* the key paths and values callers pass to set
KeyPaths ==
    {"api_settings.timeout", "api_keys.gemini_api_key", "api_settings",
     "api_settings.timeout.unit"}

SetToks == {"60"}

\* the key paths callers pass to get
GetPaths == {"api_settings.timeout", "backup.timeout", "missing.key"}

ToolIdle ==
    UNCHANGED <<month, ticks, pc, op, citations, citation, style, i, formatted_citations,
                validation_results, result, formatted, validated, calls, loggers, log_ret,
                environ, session_state, screen, run>>

\* somebody wrote config/settings.json before the manager is constructed
PlaceFile ==
    /\ default_config = 0
    /\ config_file = NoFile
    /\ \E file \in Files : config_file' = file
    /\ UNCHANGED <<heap, default_config, config, cm_ret>>
    /\ ToolIdle

\* ConfigManager(): __init__ with _get_default_config and _load_config
Construct ==
    /\ default_config = 0
    /\ LET default == _get_default_config(heap)
       IN  /\ default_config' = default.id
           /\ IF config_file.state = "valid" THEN
                  LET loaded == Load(default.heap, config_file.data)
                      merged == _merge_configs(loaded.heap, default.id, loaded.id)
                  IN  /\ config' = merged.id
                      /\ heap' = Collect(merged.heap, {default.id, merged.id})
                      /\ UNCHANGED config_file
              ELSE IF config_file.state = "corrupt" THEN
                  /\ config' = default.id
                  /\ heap' = default.heap
                  /\ UNCHANGED config_file
              ELSE
                  /\ config' = default.id
                  /\ heap' = default.heap
                  /\ \E written \in BOOLEAN :
                        config_file' = save_config(default.heap, default.id, config_file,
                                                   written)
    /\ cm_ret' = [NoReturn EXCEPT !.op = "__init__", !.ok = TRUE]
    /\ ToolIdle

\* set(key_path, value)
SetCall ==
    /\ config # 0
    /\ \E key_path \in KeyPaths, tok \in SetToks, written \in BOOLEAN :
          LET after == set(heap, config, key_path, Scalar(tok))
          IN  /\ heap' = Collect(after.heap, {default_config, config})
              /\ config_file' = IF after.raised THEN config_file
                                ELSE save_config(after.heap, config, config_file, written)
              /\ cm_ret' = [op |-> "set", key_path |-> key_path,
                            ok |-> ~after.raised /\ written, value |-> Scalar(tok)]
    /\ UNCHANGED <<default_config, config>>
    /\ ToolIdle

\* the key a caller keeps a section under, and the section it keeps
CopyPaths == {"backup"}

CopySources == {"api_settings"}

\* set(key_path, get(source)): the value is a dict the configuration holds
SetDictCall ==
    /\ config # 0
    /\ \E key_path \in CopyPaths, source \in CopySources, written \in BOOLEAN :
          LET value == get(heap, config, source, Scalar("None"))
              after == set(heap, config, key_path, value)
          IN  /\ value.ref
              /\ heap' = Collect(after.heap, {default_config, config})
              /\ config_file' = IF after.raised THEN config_file
                                ELSE save_config(after.heap, config, config_file, written)
              /\ cm_ret' = [op |-> "set", key_path |-> key_path,
                            ok |-> ~after.raised /\ written, value |-> value]
    /\ UNCHANGED <<default_config, config>>
    /\ ToolIdle

\* reset_to_defaults()
ResetCall ==
    /\ config # 0
    /\ LET copy == AllocDict(heap, heap[default_config])
       IN  /\ config' = copy.id
           /\ heap' = Collect(copy.heap, {default_config, copy.id})
           /\ \E written \in BOOLEAN :
                 /\ config_file' = save_config(copy.heap, copy.id, config_file, written)
                 /\ cm_ret' = [NoReturn EXCEPT !.op = "reset_to_defaults", !.ok = written]
    /\ UNCHANGED default_config
    /\ ToolIdle

\* get(key_path)
GetCall ==
    /\ config # 0
    /\ \E key_path \in GetPaths :
          cm_ret' = [op |-> "get", key_path |-> key_path, ok |-> TRUE,
                     value |-> get(heap, config, key_path, Scalar("None"))]
    /\ UNCHANGED <<heap, default_config, config, config_file>>
    /\ ToolIdle

\* the clock is of no concern to the ConfigManager
InitConfig == Init /\ month = 1

NextConfig ==
    \/ PlaceFile
    \/ Construct
    \/ SetCall
    \/ SetDictCall
    \/ ResetCall
    \/ GetCall

SpecConfig == InitConfig /\ [][NextConfig]_vars

-----------------------------------------------------------------------------
(* setup_logger. logging.getLogger(name) gives the same logger object for the same
   name; a handler is a record of its kind, its level and its file *)

\* logging.DEBUG, logging.INFO, logging.WARNING
Levels == {10, 20, 30}

\* log_file: None, or a path
LogFiles == {"", "logs/harvard_crew.log"}

ConsoleHandler(level) == [kind |-> "console", level |-> level, log_file |-> ""]

FileHandler(log_file, level) == [kind |-> "file", level |-> level, log_file |-> log_file]

\* a setup_logger that installs its handlers on every call
setup_logger_without_guard(logger, log_file, level, opens) ==
    LET levelled == [logger EXCEPT !.level = level]
        console == [levelled EXCEPT !.handlers = Append(@, ConsoleHandler(level))]
    IN  IF log_file = "" THEN [logger |-> console, raised |-> FALSE]
        ELSE IF ~opens THEN [logger |-> console, raised |-> TRUE]
        ELSE [logger |-> [console EXCEPT !.handlers = Append(@, FileHandler(log_file, level))],
              raised |-> FALSE]

\* setup_logger(name, log_file, level) on the logger of that name; opens tells
\* whether os.makedirs and logging.FileHandler(log_file) succeed
setup_logger(logger, log_file, level, opens) ==
    LET levelled == [logger EXCEPT !.level = level]
        console == [levelled EXCEPT !.handlers = Append(@, ConsoleHandler(level))]
    IN  IF levelled.handlers # <<>> THEN [logger |-> levelled, raised |-> FALSE]
        ELSE IF log_file = "" THEN [logger |-> console, raised |-> FALSE]
        ELSE IF ~opens THEN [logger |-> console, raised |-> TRUE]
        ELSE [logger |-> [console EXCEPT !.handlers = Append(@, FileHandler(log_file, level))],
              raised |-> FALSE]

\* the most handlers a logger is followed up to
MaxHandlers == 4

\* a caller invokes setup_logger
SetupLogger ==
    /\ \E name \in LoggerNames, log_file \in LogFiles, level \in Levels, opens \in BOOLEAN :
          LET after == setup_logger(loggers[name], log_file, level, opens)
          IN  /\ Len(after.logger.handlers) <= MaxHandlers
              /\ loggers' = [loggers EXCEPT ![name] = after.logger]
              /\ log_ret' = [name |-> name, log_file |-> log_file, level |-> level,
                             raised |-> after.raised]
    /\ UNCHANGED <<month, ticks, pc, op, citations, citation, style, i, formatted_citations,
                   validation_results, result, formatted, validated, calls, heap,
                   default_config, config, config_file, cm_ret, environ, session_state,
                   screen, run>>

NextLog == SetupLogger

SpecLog == InitConfig /\ [][NextLog]_vars

-----------------------------------------------------------------------------
(* ReportGenerator. A results mapping is a function from its keys to the kind of
   value under the key: "dict" a non-empty dict, "empty" an empty dict, "text" a
   non-empty str, "iso" a str in ISO date format *)

\* the seven stages of the pipeline
Stages ==
    {"literature_review", "methodology", "data_analysis", "research_paper",
     "citation_analysis", "quality_assurance", "presentation"}

\* results with the stages of done as non-empty dicts and the keys of more besides
ResultsOf(done, more) ==
    [key \in done \cup DOMAIN more |-> IF key \in done THEN "dict" ELSE more[key]]

NoMore == [key \in {} |-> ""]

\* the mappings the crew hands back
CrewResults ==
    { ResultsOf(Stages, NoMore),
      ResultsOf(Stages, [start_time |-> "iso"]),
      ResultsOf(Stages \ {"presentation"}, [notes |-> "text"]),
      ResultsOf({"literature_review", "methodology"}, [data_analysis |-> "empty"]),
      ResultsOf({}, NoMore),
      ResultsOf({"methodology"}, [literature_review |-> "text"]),
      ResultsOf(Stages, [start_time |-> "text"]) }

\* bool(value)
NonEmpty(kind) == kind # "empty"

\* total_tasks
total_tasks == 7

\* _calculate_completion_status: every key with a non-empty value counts; the
\* percentage (completed_tasks / total_tasks) * 100 is kept as a fraction, and it is
\* 100 exactly when the two counts are equal
_calculate_completion_status(results) ==
    LET completed_tasks == Cardinality({k \in DOMAIN results : NonEmpty(results[k])})
    IN  [tasks_completed |-> completed_tasks, total_tasks |-> total_tasks,
         completion_percentage |-> [num |-> completed_tasks * 100, den |-> total_tasks],
         overall_status |-> IF completed_tasks * 100 = 100 * total_tasks THEN "Completed"
                            ELSE "In Progress"]

\* the keys of a report
ReportKeys ==
    Stages \cup {"metadata", "summary", "recommendations"}

\* generate_report raises: datetime.fromisoformat on a start_time that is no ISO
\* date, or .get on a stage that is a str
ReportRaises(results) ==
    \/ "start_time" \in DOMAIN results /\ results["start_time"] # "iso"
    \/ \E stage \in Stages \cap DOMAIN results : results[stage] \in {"text", "iso"}

\* generate_report(research_topic, results, paper_requirements)
generate_report(research_topic, results, paper_requirements) ==
    IF ReportRaises(results) THEN
        [raised |-> TRUE, value |-> NoMapping, error |-> "report: " \o research_topic]
    ELSE
        [raised |-> FALSE,
         value |-> [keys |-> ReportKeys, error |-> "", research_topic |-> research_topic,
                    execution_summary |-> _calculate_completion_status(results)],
         error |-> ""]

-----------------------------------------------------------------------------
(* HarvardResearchCrew *)

required_keys == {"gemini_api_key", "openrouter_api_key", "groq_api_key", "serper_api_key"}

\* the environment variable each API key is read from
EnvName ==
    [gemini_api_key |-> "GEMINI_API_KEY", openrouter_api_key |-> "OPENROUTER_API_KEY",
     groq_api_key |-> "GROQ_API_KEY", serper_api_key |-> "SERPER_API_KEY"]

\* _load_api_keys: the keys that hold a non-empty value
_load_api_keys(env) == {key \in required_keys : EnvName[key] \in env}

\* HarvardResearchCrew()
NewCrew(env) == [api_keys |-> _load_api_keys(env), crew |-> FALSE, agents |-> 0, tasks |-> 0]

_validate_api_keys(self) == required_keys \subseteq self.api_keys

\* len(self.agents) after setup_agents, len(self.tasks) after setup_tasks
AgentCount == 8

TaskCount == 7

\* the step of an execution that raises, if any
ExecutionFaults == {"none", "setup_agents", "setup_tasks", "Crew", "kickoff"}

\* create_crew: the object after the call; its field crew tells whether a Crew was
\* returned, not None
create_crew(self, fault) ==
    IF ~_validate_api_keys(self) THEN self
    ELSE IF fault = "setup_agents" THEN self
    ELSE IF fault = "setup_tasks" THEN [self EXCEPT !.agents = AgentCount]
    ELSE IF fault = "Crew" THEN [self EXCEPT !.agents = AgentCount, !.tasks = TaskCount]
    ELSE [self EXCEPT !.agents = AgentCount, !.tasks = TaskCount, !.crew = TRUE]

\* {"error": ...}
ErrorMapping(error, keys, research_topic) ==
    [NoMapping EXCEPT !.keys = keys, !.error = error, !.research_topic = research_topic]

\* an execute_research without its except clause
execute_research_uncaught(self, research_topic, paper_requirements, fault, results) ==
    LET made == create_crew(self, fault)
        report == generate_report(research_topic, results, paper_requirements)
    IN  IF ~made.crew THEN
            [self |-> made, raised |-> FALSE,
             returned |-> ErrorMapping("Failed to create research crew", {"error"}, "")]
        ELSE IF fault = "kickoff" \/ report.raised THEN
            [self |-> made, raised |-> TRUE, returned |-> NoMapping]
        ELSE
            [self |-> made, raised |-> FALSE,
             returned |-> [report.value EXCEPT !.keys = @ \cup {"execution_metadata"}]]

\* execute_research(research_topic, paper_requirements): the object after the call,
\* the mapping returned; results is what the crew hands back when it runs
execute_research(self, research_topic, paper_requirements, fault, results) ==
    LET made == create_crew(self, fault)
        report == generate_report(research_topic, results, paper_requirements)
    IN  IF ~made.crew THEN
            [self |-> made, raised |-> FALSE,
             returned |-> ErrorMapping("Failed to create research crew", {"error"}, "")]
        ELSE IF fault = "kickoff" THEN
            [self |-> made, raised |-> FALSE,
             returned |-> ErrorMapping("kickoff failed", {"error", "research_topic"},
                                       research_topic)]
        ELSE IF report.raised THEN
            [self |-> made, raised |-> FALSE,
             returned |-> ErrorMapping(report.error, {"error", "research_topic"},
                                       research_topic)]
        ELSE
            [self |-> made, raised |-> FALSE,
             returned |-> [report.value EXCEPT !.keys = @ \cup {"execution_metadata"}]]

-----------------------------------------------------------------------------
(* main(): the Streamlit script. A click or an edit runs the script from the top;
   st.session_state lasts from run to run, the page is drawn anew. A button can be
   clicked when the run before has drawn it. *)

\* what the user has typed as the research topic
Topics == {"", "  ", "Sustainable urban planning"}

\* the paper requirements, by the citation style chosen in the sidebar
Requirements == {"APA", "IEEE"}

\* the sets of API keys a user saves: all, none, all but one
EnvChoices ==
    { {"GEMINI_API_KEY", "OPENROUTER_API_KEY", "GROQ_API_KEY", "SERPER_API_KEY"},
      {},
      {"GEMINI_API_KEY", "OPENROUTER_API_KEY", "GROQ_API_KEY"} }

\* s.strip() for blanks
RECURSIVE strip(_)
strip(s) ==
    IF s = "" THEN ""
    ELSE IF Char(s, 1) = " " THEN strip(SubSeq(s, 2, Len(s)))
    ELSE IF Char(s, Len(s)) = " " THEN strip(SubSeq(s, 1, Len(s) - 1))
    ELSE s

SuccessText == "success: Research execution completed successfully!"

\* tab3 and tab4: each stops the script unless execution_results is in the session
\* and holds no "error" key
ResultTabs(session) ==
    IF "execution_results" \notin session.present THEN
        [messages |-> {"info: Please execute the research process first"}, rendered |-> {}]
    ELSE IF "error" \in session.execution_results.keys THEN
        [messages |-> {"error: Execution failed"}, rendered |-> {}]
    ELSE IF "execution_results" \notin session.present THEN
        [messages |-> {"info: Please execute the research process first"},
         rendered |-> {"Results"}]
    ELSE IF "error" \in session.execution_results.keys THEN
        [messages |-> {"error: Cannot download results"}, rendered |-> {"Results"}]
    ELSE [messages |-> {}, rendered |-> {"Results", "Download"}]

\* the page a run leaves: the sidebar and tab1 always, tab2 unless research_topic
\* is not in the session (st.stop()), then tab3 and tab4; messages and progress are
\* what the button pressed in this run has written
Page(session, messages, progress) ==
    IF "research_topic" \notin session.present THEN
        [messages |-> messages \cup {"info: Please set up your research first"},
         progress |-> 0, rendered |-> {"Sidebar", "Research Setup"}]
    ELSE
        LET tabs == ResultTabs(session)
        IN  [messages |-> messages \cup tabs.messages, progress |-> progress,
             rendered |-> {"Sidebar", "Research Setup", "Execution"} \cup tabs.rendered]

AppFrame ==
    UNCHANGED <<month, ticks, pc, op, citations, citation, style, i, formatted_citations,
                validation_results, result, formatted, validated, calls, heap,
                default_config, config, config_file, cm_ret, loggers, log_ret>>

\* the page is loaded, or a widget is edited: a run with no button pressed
Rerun ==
    /\ screen' = Page(session_state, {}, 0)
    /\ run' = NoRun
    /\ UNCHANGED <<environ, session_state>>
    /\ AppFrame

\* "Save API Keys"
SaveApiKeys ==
    /\ "Sidebar" \in screen.rendered
    /\ \E env \in EnvChoices : environ' = env
    /\ screen' = Page(session_state, {"success: API keys saved successfully!"}, 0)
    /\ run' = [NoRun EXCEPT !.button = "Save API Keys"]
    /\ UNCHANGED session_state
    /\ AppFrame

\* "Validate Research Setup": shown when the topic is not empty
ValidateSetup ==
    /\ "Research Setup" \in screen.rendered
    /\ \E research_topic \in Topics \ {""}, keywords \in BOOLEAN :
          screen' = Page(session_state,
                         IF Len(strip(research_topic)) < 10 THEN
                             {"error: Research topic should be more detailed"}
                         ELSE IF ~keywords THEN {"warning: Consider adding relevant keywords"}
                         ELSE {"success: Research setup looks good!"},
                         0)
    /\ run' = [NoRun EXCEPT !.button = "Validate Research Setup"]
    /\ UNCHANGED <<environ, session_state>>
    /\ AppFrame

\* "Start Research Process": saves the topic and the requirements, then st.rerun()
StartResearch ==
    /\ "Research Setup" \in screen.rendered
    /\ \E research_topic \in Topics, paper_requirements \in Requirements :
          IF strip(research_topic) = "" THEN
              /\ screen' = Page(session_state, {"error: Please enter a research topic"}, 0)
              /\ UNCHANGED session_state
          ELSE
              LET saved == [session_state EXCEPT
                               !.present = @ \cup {"research_topic", "paper_requirements"},
                               !.research_topic = research_topic,
                               !.paper_requirements = paper_requirements]
              IN  /\ session_state' = saved
                  /\ screen' = Page(saved, {}, 0)
    /\ run' = [NoRun EXCEPT !.button = "Start Research Process"]
    /\ UNCHANGED environ
    /\ AppFrame

\* what create_crew writes on the page
CrewMessages(self, fault) ==
    IF ~_validate_api_keys(self) THEN {"error: Missing required API keys"}
    ELSE IF fault \in {"setup_agents", "setup_tasks", "Crew"} THEN
        {"error: Error creating research crew"}
    ELSE {}

\* "Execute Research Crew": the try block of tab2 and its except branch
ExecuteResearch ==
    /\ "Execution" \in screen.rendered
    /\ \E fault \in ExecutionFaults \cup {"init"}, results \in CrewResults :
          LET harvard_crew == NewCrew(environ)
              out == execute_research(harvard_crew, session_state.research_topic,
                                      session_state.paper_requirements, fault, results)
              stored == [session_state EXCEPT
                            !.present = @ \cup {"execution_results", "crew"},
                            !.execution_results = out.returned,
                            !.crew = out.self]
          IN  IF fault = "init" THEN
                  /\ screen' = Page(session_state, {"error: Error during execution"}, 0)
                  /\ run' = [NoRun EXCEPT !.button = "Execute Research Crew",
                                          !.fault = fault]
                  /\ UNCHANGED session_state
              ELSE IF out.raised THEN
                  /\ screen' = Page(session_state,
                                    CrewMessages(harvard_crew, fault)
                                        \cup {"error: Error during execution"}, 10)
                  /\ run' = [button |-> "Execute Research Crew", executed |-> TRUE,
                             raised |-> TRUE, fault |-> fault, results |-> results,
                             returned |-> NoMapping, crew |-> out.self]
                  /\ UNCHANGED session_state
              ELSE
                  /\ session_state' = stored
                  /\ screen' = Page(stored,
                                    CrewMessages(harvard_crew, fault) \cup {SuccessText}, 100)
                  /\ run' = [button |-> "Execute Research Crew", executed |-> TRUE,
                             raised |-> FALSE, fault |-> fault, results |-> results,
                             returned |-> out.returned, crew |-> out.self]
    /\ UNCHANGED environ
    /\ AppFrame

\* "Pause Execution"
PauseExecution ==
    /\ "Execution" \in screen.rendered
    /\ screen' = Page(session_state, {"warning: Pause functionality not implemented yet"}, 0)
    /\ run' = [NoRun EXCEPT !.button = "Pause Execution"]
    /\ UNCHANGED <<environ, session_state>>
    /\ AppFrame

\* a reset that also forgets the saved topic
ResetProgress_forgets_topic ==
    /\ "Execution" \in screen.rendered
    /\ LET popped == [session_state EXCEPT
                         !.present = @ \ {"execution_results", "crew", "research_topic"},
                         !.research_topic = "",
                         !.execution_results = NoMapping,
                         !.crew = NoCrew]
       IN  /\ session_state' = popped
           /\ screen' = Page(popped, {"success: Progress reset successfully"}, 0)
    /\ run' = [NoRun EXCEPT !.button = "Reset Progress"]
    /\ UNCHANGED environ
    /\ AppFrame

\* "Reset Progress": pops execution_results and crew
ResetProgress ==
    /\ "Execution" \in screen.rendered
    /\ LET popped == [session_state EXCEPT
                         !.present = @ \ {"execution_results", "crew"},
                         !.execution_results = NoMapping,
                         !.crew = NoCrew]
       IN  /\ session_state' = popped
           /\ screen' = Page(popped, {"success: Progress reset successfully"}, 0)
    /\ run' = [NoRun EXCEPT !.button = "Reset Progress"]
    /\ UNCHANGED environ
    /\ AppFrame

NextApp ==
    \/ Rerun
    \/ SaveApiKeys
    \/ ValidateSetup
    \/ StartResearch
    \/ ExecuteResearch
    \/ PauseExecution
    \/ ResetProgress

SpecApp == InitConfig /\ [][NextApp]_vars

-----------------------------------------------------------------------------
(* What the claims speak of *)

RunReturned == pc = "returned" /\ op = "_run"

FormatReturned == pc = "returned" /\ op = "_format_citation"

ValidateReturned == pc = "returned" /\ op = "_validate_citation"

\* formatting does not read the clock to decide whether it raises
FormatFaults(c, st) == _format_citation(c, st, 1).raised

Faults(c, st) == FormatFaults(c, st) \/ _validate_citation(c).raised

\* the months the clock showed while the running call of _run was running
MonthsDuringCall == {((month + Len(months) - 1 - t) % Len(months)) + 1 : t \in 0..ticks}

\* the strings format(c, st) can have given during the running call
FormatsOf(c, st) == {_format_citation(c, st, m).value : m \in MonthsDuringCall}

\* the records before position j of the batch whose processing raised
FaultsBefore(j) == {k \in 1..(j - 1) : Faults(citations[k], style)}

IsDigitChar(ch) == ch \in {"0", "1", "2", "3", "4", "5", "6", "7", "8", "9"}

OnlyDigits(s) == \A k \in 1..Len(s) : IsDigitChar(Char(s, k))

\* the field is absent or empty
Missing(c, field) ==
    \/ c[field].t = "absent"
    \/ c[field].t = "str" /\ c[field].s = ""
    \/ c[field].t = "list" /\ c[field].l = <<>>
    \/ c[field].t = "int" /\ c[field].n = 0

\* the year is a non-empty string of digits
GoodYear(c) == c.year.t = "str" /\ c.year.s # "" /\ OnlyDigits(c.year.s)

\* a missing required field or a malformed year
HasDefect(c) ==
    \/ \E field \in {"authors", "title", "year", "journal"} : Missing(c, field)
    \/ c.year.t = "str" /\ ~OnlyDigits(c.year.s)

Occurrences(q, x) == Cardinality({k \in 1..Len(q) : q[k] = x})

IssueOrder ==
    << "Missing required field: authors", "Missing required field: title",
       "Missing required field: year", "Missing required field: journal",
       "Invalid year format" >>

SuggestionOrder ==
    << "Please provide the authors.", "Please provide the title.",
       "Please provide the year.", "Please provide the journal.",
       "Please provide the year as a 4-digit number." >>

IssueRank(x) == CHOOSE k \in 1..Len(IssueOrder) : IssueOrder[k] = x

-----------------------------------------------------------------------------
(* C1..C10 *)

\* C1: a batch of N records returns exactly N formatted strings and N validation
\* results, and those at position k are the ones of input record k, also when
\* another record of the batch faults.
C1_BatchAligned ==
    RunReturned =>
        /\ Len(result.formatted_citations) = Len(citations)
        /\ Len(result.validation_results) = Len(citations)
        /\ \A k \in 1..Len(citations) :
              ~Faults(citations[k], style) =>
                  /\ result.formatted_citations[k] \in FormatsOf(citations[k], style)
                  /\ result.validation_results[k]
                        = ValidationEntry(k - 1, _validate_citation(citations[k]).value)

\* C2: formatting a single record never raises because of absent or empty fields,
\* whatever the style: it returns a string.
C2_FormatNeverRaises == FormatReturned => ~formatted.raised

\* C3: when a record of the batch raises, the call still returns with every record
\* processed, and every record that did not raise has its own validation result at
\* its position and its own formatted string (after those of the earlier records
\* that did not raise) in the output.
C3_FaultIsolation ==
    RunReturned =>
        /\ i = Len(citations)
        /\ result.original_count = Len(citations)
        /\ \A j \in 1..Len(citations) :
              ~Faults(citations[j], style) =>
                  LET p == j - Cardinality(FaultsBefore(j))
                  IN  /\ j <= Len(result.validation_results)
                      /\ result.validation_results[j].citation_id = j - 1
                      /\ result.validation_results[j].valid
                            = _validate_citation(citations[j]).value.valid
                      /\ result.validation_results[j].issues
                            = _validate_citation(citations[j]).value.issues
                      /\ p <= Len(result.formatted_citations)
                      /\ result.formatted_citations[p] \in FormatsOf(citations[j], style)

\* C3 witness: a returned batch of three whose second record raised and whose first
\* and third records were formatted and validated.
C3_Witness ==
    /\ RunReturned
    /\ Len(citations) = 3
    /\ Faults(citations[2], style)
    /\ ~Faults(citations[1], style)
    /\ ~Faults(citations[3], style)
    /\ Len(result.formatted_citations) = 2
    /\ Len(result.validation_results) = 3
    /\ result.formatted_citations[2] \in FormatsOf(citations[3], style)

\* C4: a record whose formatting raised inside the batch has the validation result
\* valid = false, exactly one issue (the text of the error), and no suggestions.
C4_FaultDowngraded ==
    RunReturned =>
        \A j \in 1..Len(citations) :
            FormatFaults(citations[j], style) =>
                /\ j <= Len(result.validation_results)
                /\ result.validation_results[j].valid = FALSE
                /\ Len(result.validation_results[j].issues) = 1
                /\ result.validation_results[j].issues[1]
                      = _format_citation(citations[j], style, 1).error
                /\ result.validation_results[j].suggestions = <<>>

\* C4 witness: a returned batch with a record whose formatting raised.
C4_Witness ==
    /\ RunReturned
    /\ \E j \in 1..Len(citations) :
          /\ FormatFaults(citations[j], style)
          /\ result.validation_results[j].issues = <<"list index out of range">>

\* C5: every record of a batch with a validation defect (a missing required field
\* or a malformed year) still has its formatted string in the output.
C5_DefectStillFormatted ==
    RunReturned =>
        \A j \in 1..Len(citations) :
            HasDefect(citations[j]) =>
                \E p \in 1..Len(result.formatted_citations) :
                    /\ ~FormatFaults(citations[j], style)
                    /\ result.formatted_citations[p] \in FormatsOf(citations[j], style)

\* C6: a record missing exactly one of authors, title, year, journal (the other
\* three present and valid) validates to exactly one issue,
\* "Missing required field: {field}".
C6_RequiredFieldCompleteness ==
    ValidateReturned =>
        \A field \in {"authors", "title", "year", "journal"} :
            ( /\ Missing(citation, field)
              /\ \A other \in {"authors", "title", "year", "journal"} \ {field} :
                    ~Missing(citation, other)
              /\ field # "year" => GoodYear(citation) ) =>
                /\ ~validated.raised
                /\ validated.value.issues = <<"Missing required field: " \o field>>

\* C6 witness: a validated record that lacks only the journal.
C6_Witness ==
    /\ ValidateReturned
    /\ Missing(citation, "journal")
    /\ ~Missing(citation, "authors") /\ ~Missing(citation, "title") /\ GoodYear(citation)
    /\ validated.value.issues = <<"Missing required field: journal">>

\* C7: a non-empty year string with a non-digit character gives exactly one
\* "Invalid year format" issue; a non-empty year string of digits gives no issue
\* about the year, whatever its length; an empty or absent year gives the
\* missing-field issue and never the format issue.
C7_YearValidation ==
    ValidateReturned /\ citation.year.t \in {"str", "absent"} =>
        /\ ~validated.raised
        /\ (citation.year.s # "" /\ ~OnlyDigits(citation.year.s)) =>
              /\ Occurrences(validated.value.issues, "Invalid year format") = 1
              /\ Occurrences(validated.value.issues, "Missing required field: year") = 0
        /\ (citation.year.s # "" /\ OnlyDigits(citation.year.s)) =>
              /\ Occurrences(validated.value.issues, "Invalid year format") = 0
              /\ Occurrences(validated.value.issues, "Missing required field: year") = 0
        /\ citation.year.s = "" =>
              /\ Occurrences(validated.value.issues, "Invalid year format") = 0
              /\ Occurrences(validated.value.issues, "Missing required field: year") = 1

\* C7 witness: a validated record whose year is a five-digit string.
C7_Witness ==
    /\ ValidateReturned
    /\ citation.year = PyStr("12345")
    /\ Occurrences(validated.value.issues, "Invalid year format") = 0

\* authors, title, year and journal are non-empty and the year has only digits
Complete(c) ==
    /\ \A field \in {"authors", "title", "year", "journal"} : ~Missing(c, field)
    /\ GoodYear(c)

\* C8: valid is true iff the issues list is empty, which is exactly when authors,
\* title, year and journal are non-empty and the year has only digits; this holds
\* of a result of _validate_citation and of every validation result of a batch.
C8_ValidIffNoIssues ==
    /\ ValidateReturned /\ ~validated.raised =>
          /\ validated.value.valid <=> validated.value.issues = <<>>
          /\ validated.value.valid <=> Complete(citation)
    /\ RunReturned =>
          \A j \in 1..Len(result.validation_results) :
              /\ result.validation_results[j].valid
                    <=> result.validation_results[j].issues = <<>>
              /\ result.validation_results[j].valid <=> Complete(citations[j])

\* C8 witness: a validated record with exactly one issue, hence not valid.
C8_Witness ==
    /\ ValidateReturned
    /\ ~validated.raised
    /\ Len(validated.value.issues) = 1
    /\ ~validated.value.valid

\* C9: validation never raises, for every record-shaped input, the numeric years of
\* the search tools included: it returns valid / issues / suggestions.
C9_ValidateNeverRaises == ValidateReturned => ~validated.raised

\* C10: issues come in the order authors, title, year, journal, then the year
\* format; suggestions has the length of issues, suggestion k being that of issue k.
C10_IssueOrderAndPairing ==
    ValidateReturned /\ ~validated.raised =>
        LET issues == validated.value.issues
            suggestions == validated.value.suggestions
        IN  /\ Len(suggestions) = Len(issues)
            /\ \A k \in 1..Len(issues) :
                  /\ \E r \in 1..Len(IssueOrder) : IssueOrder[r] = issues[k]
                  /\ k <= Len(suggestions)
                  /\ suggestions[k] = SuggestionOrder[IssueRank(issues[k])]
            /\ \A k \in 1..(Len(issues) - 1) :
                  IssueRank(issues[k]) < IssueRank(issues[k + 1])

\* C10 witness: a validated record with three missing fields and a malformed year.
C10_Witness ==
    /\ ValidateReturned
    /\ validated.value.issues
          = << "Missing required field: authors", "Missing required field: title",
               "Missing required field: journal", "Invalid year format" >>
    /\ Len(validated.value.suggestions) = 4

-----------------------------------------------------------------------------
(* C11..C20: what the claims speak of *)

\* the authors of a record, an absent field being the empty list
AuthorsOf(c) == IF c.authors.t = "list" THEN c.authors.l ELSE <<>>

\* the text of a field value of the records of Citations
TextOf(v) ==
    CASE v.t = "str" -> v.s
      [] v.t = "int" /\ v.n = 2023 -> "2023"
      [] v.t = "int" /\ v.n = 2024 -> "2024"
      [] v.t = "int" /\ v.n = 0 -> "0"
      [] OTHER -> ""

\* the names xs with sep between each two neighbours
RECURSIVE Joined(_, _)
Joined(xs, sep) ==
    IF Len(xs) = 0 THEN ""
    ELSE IF Len(xs) = 1 THEN xs[1]
    ELSE Joined(SubSeq(xs, 1, Len(xs) - 1), sep) \o sep \o xs[Len(xs)]

StartsWith(s, prefix) ==
    Len(prefix) <= Len(s) /\ SubSeq(s, 1, Len(prefix)) = prefix

ApaAuthors(xs) ==
    CASE Len(xs) = 0 -> ""
      [] Len(xs) = 1 -> xs[1]
      [] Len(xs) = 2 -> xs[1] \o " & " \o xs[2]
      [] OTHER -> xs[1] \o " et al."

MlaAuthors(xs) == IF Len(xs) <= 3 THEN Joined(xs, " and ") ELSE xs[1] \o " et al."

ChicagoAuthors(xs) == IF Len(xs) <= 3 THEN Joined(xs, ", ") ELSE xs[1] \o " et al."

MonthNames ==
    [m \in 1..12 |->
        CASE m = 1 -> "January" [] m = 2 -> "February" [] m = 3 -> "March"
          [] m = 4 -> "April" [] m = 5 -> "May" [] m = 6 -> "June"
          [] m = 7 -> "July" [] m = 8 -> "August" [] m = 9 -> "September"
          [] m = 10 -> "October" [] m = 11 -> "November" [] m = 12 -> "December"]

ApaStyles == {"APA", "apa", "Apa", "aPA"}

MlaStyles == {"MLA", "mla", "Mla"}

ChicagoStyles == {"CHICAGO", "Chicago", "chicago", "ChIcAgO"}

FallbackStyles == {"UNKNOWN", "unknown", "Harvard", "HARVARD", "IEEE", ""}

LiteralRecord ==
    Cite(PyList(<<"Doe, J.">>), PyStr("X"), PyStr("2023"), PyStr("Y"), TRUE)

-----------------------------------------------------------------------------
(* C11..C16 *)

\* C11: under APA one author renders as the name, two as "A & B", three or more as
\* "{first} et al.", and an empty (or absent) author list as the empty string.
C11_ApaAuthorCollapsing ==
    FormatReturned /\ style \in ApaStyles =>
        /\ ~formatted.raised
        /\ StartsWith(formatted.value, ApaAuthors(AuthorsOf(citation)) \o " (")

\* C12: for every record, format(record, "APA") is
\* "{authors} ({year}). {title}. {journal}, {volume}({issue}), {pages}." with the
\* collapsed author string; the literal record gives
\* "Doe, J. (2023). X. Y, 4(2), 10-20.".
C12_ApaRendering ==
    FormatReturned /\ style \in ApaStyles =>
        /\ ~formatted.raised
        /\ formatted.value =
              ApaAuthors(AuthorsOf(citation)) \o " (" \o TextOf(citation.year) \o "). "
              \o TextOf(citation.title) \o ". " \o TextOf(citation.journal) \o ", "
              \o TextOf(citation.volume) \o "(" \o TextOf(citation.issue) \o "), "
              \o TextOf(citation.pages) \o "."
        /\ citation = LiteralRecord => formatted.value = "Doe, J. (2023). X. Y, 4(2), 10-20."

C15_FallbackRendering ==
    FormatReturned /\ style \in FallbackStyles =>
        /\ ~formatted.raised
        /\ formatted.value =
              Joined(AuthorsOf(citation), ", ") \o ". " \o TextOf(citation.title) \o ". "
              \o TextOf(citation.journal) \o ", " \o TextOf(citation.year) \o "."
        /\ citation = LiteralRecord => formatted.value = "Doe, J.. X. Y, 2023."

\* C15 witness: four authors formatted with an unknown style, none dropped.
C15_Witness ==
    /\ FormatReturned
    /\ style = "Harvard"
    /\ Len(AuthorsOf(citation)) = 4
    /\ citation.title = PyStr("X") /\ citation.year = PyStr("2023")
    /\ citation.journal = PyStr("Y")
    /\ formatted.value = "Doe, J., Smith, Jones, Lee. X. Y, 2023."

\* C16: two styles that differ only in letter case select the same template and
\* give the same string, and a style that is not APA, MLA or CHICAGO in any casing
\* gives what the fallback gives.
C16_StyleCaseInsensitive ==
    FormatReturned =>
        /\ \A class \in {ApaStyles, MlaStyles, ChicagoStyles} :
              style \in class =>
                  \A other \in class : _format_citation(citation, other, month) = formatted
        /\ style \notin (ApaStyles \cup MlaStyles \cup ChicagoStyles) =>
              \A other \in FallbackStyles :
                  _format_citation(citation, other, month) = formatted

\* C16 witness: a record formatted with the style "apa" as with "APA".
C16_Witness ==
    /\ FormatReturned
    /\ style = "apa"
    /\ citation = LiteralRecord
    /\ formatted.value = "Doe, J. (2023). X. Y, 4(2), 10-20."

-----------------------------------------------------------------------------
(* C18, C19 *)

\* the mapping _run returns when a call with these locals runs to its end with no
\* other call beside it, the clock showing now_month
RECURSIVE RunAlone(_, _)
RunAlone(frame, now_month) ==
    IF frame.i = Len(frame.citations) THEN ReturnFrame(frame).result
    ELSE RunAlone(IterFrame(frame, now_month), now_month)

\* C18: when calls of _run are interleaved in any order, each call returns the
\* mapping it returns when it runs alone under the same clock month.
C18_InterleavedAsAlone ==
    \A t \in Threads :
        calls[t].pc = "returned" =>
            calls[t].result
                = RunAlone([IdleFrame EXCEPT !.pc = "run",
                                             !.citations = calls[t].citations,
                                             !.style = calls[t].style], month)

\* C18 witness: a call that returned two records' results while the other call, with
\* another input, was in the middle of its loop.
C18_Witness ==
    /\ calls["t1"].pc = "returned"
    /\ Len(calls["t1"].citations) = 2
    /\ Len(calls["t1"].result.validation_results) = 2
    /\ calls["t2"].pc = "run"
    /\ calls["t2"].i = 1
    /\ Len(calls["t2"].citations) = 2
    /\ calls["t2"].citations # calls["t1"].citations

\* the arguments of the running call, as the caller sees them
Inputs == <<citations, citation, style>>

-----------------------------------------------------------------------------
(* C20 *)

\* the leaves of the dict _get_default_config returns
OriginalDefaults ==
    LET default == _get_default_config(EmptyHeap) IN Dump(default.heap, default.id, <<>>)

\* "a.b" for <<"a", "b">>
Dotted(path) == Joined(path, ".")

\* C20: after reset_to_defaults, get returns the original default value for every
\* key path of the defaults, whatever set calls came before.
C20_ResetRestoresDefaults ==
    cm_ret.op = "reset_to_defaults" =>
        \A leaf \in OriginalDefaults :
            get(heap, config, Dotted(leaf[1]), Scalar("None")) = Scalar(leaf[2])

-----------------------------------------------------------------------------
(* C21, C22 *)

\* the manager is constructed in this step from a file that json.load accepts
LoadStep == default_config = 0 /\ default_config' # 0 /\ config_file.state = "valid"

\* the key path leads to a value in the dict root
Present(h, root, path) == ~Walk(h, Ref(root), path).raised

\* the leaves of the file that are values, not empty dicts
FileValues(data) == {leaf \in data : leaf[2] # "{}"}

\* C21: after a load, the configuration holds every key path of the defaults at
\* every nesting level and every value of the file, and the default configuration
\* is as _get_default_config made it.
C21_LoadKeepsDefaultKeys ==
    [][ LoadStep =>
          /\ \A leaf \in OriginalDefaults : Present(heap', config', leaf[1])
          /\ \A leaf \in FileValues(config_file.data) :
                Walk(heap', Ref(config'), leaf[1]) =
                    [raised |-> FALSE, value |-> Scalar(leaf[2])]
          /\ Dump(heap', default_config', <<>>) = OriginalDefaults
      ]_vars

IsPrefix(p, q) == Len(p) <= Len(q) /\ SubSeq(q, 1, Len(p)) = p

\* one key path is a prefix or an extension of the other
Related(a, b) == IsPrefix(Split(a), Split(b)) \/ IsPrefix(Split(b), Split(a))

\* the key paths get is asked for before and after a set
ProbePaths ==
    GetPaths \cup KeyPaths \cup CopyPaths \cup CopySources
        \cup {Dotted(leaf[1]) : leaf \in OriginalDefaults}
        \cup {"ui_settings", "api_keys", "backup.max_retries"}

\* what get returns, a dict together with all it holds
Got(h, root, key_path) ==
    LET v == get(h, root, key_path, Scalar("None"))
    IN  [value |-> v, text |-> IF v.ref THEN Dump(h, v.id, <<>>) ELSE {}]

\* the places of the configuration that hold the dict target
HoldersOf(h, root, target) ==
    UNION { {<<id, k>> : k \in {x \in DOMAIN h[id] : h[id][x] = Ref(target)}}
            : id \in Reachable(h, {root}) }

\* no dict of the configuration is held under two key paths
Unshared(h, root) ==
    \A target \in Reachable(h, {root}) : Cardinality(HoldersOf(h, root, target)) <= 1

\* this step is a set that returned True
SetReturnedTrue == cm_ret'.op = "set" /\ cm_ret'.ok

\* C22 as stated: whenever set(key_path, value) returns True, get(key_path) returns
\* value and get of every key path that is neither a prefix nor an extension of
\* key_path returns what it returned before.
C22_SetGetRoundTrip ==
    [][ SetReturnedTrue =>
          /\ get(heap', config', cm_ret'.key_path, Scalar("None")) = cm_ret'.value
          /\ \A other \in ProbePaths :
                ~Related(other, cm_ret'.key_path) =>
                    Got(heap', config', other) = Got(heap, config, other)
      ]_vars

\* C22 amended: whenever set(key_path, value) returns True, get(key_path) returns
\* value; and when no dict of the configuration is held under two key paths, get of
\* every key path that is neither a prefix nor an extension of key_path returns
\* what it returned before.
C22_SetGetRoundTripUnshared ==
    [][ SetReturnedTrue =>
          /\ get(heap', config', cm_ret'.key_path, Scalar("None")) = cm_ret'.value
          /\ Unshared(heap, config) =>
                \A other \in ProbePaths :
                    ~Related(other, cm_ret'.key_path) =>
                        Got(heap', config', other) = Got(heap, config, other)
      ]_vars

\* C22 witness: set("api_settings.timeout", 60) returned True on a configuration
\* that holds no dict twice, and the other keys of the section are still there.
C22_Witness ==
    /\ cm_ret.op = "set"
    /\ cm_ret.ok
    /\ cm_ret.key_path = "api_settings.timeout"
    /\ Unshared(heap, config)
    /\ get(heap, config, "api_settings.timeout", Scalar("None")) = Scalar("60")
    /\ get(heap, config, "api_settings.max_retries", Scalar("None")) = Scalar("3")

-----------------------------------------------------------------------------
(* C23 *)

HandlersOfKind(logger, kind) == {k \in 1..Len(logger.handlers) : logger.handlers[k].kind = kind}

\* C23: a call of setup_logger on a logger that has handlers leaves its handlers as
\* they are; a logger never has more than one console and one file handler; and
\* every call leaves the logger at the level it was given.
C23_NoDuplicateHandlers ==
    [][ /\ \A name \in LoggerNames :
              /\ loggers[name].handlers # <<>> =>
                    loggers'[name].handlers = loggers[name].handlers
              /\ Cardinality(HandlersOfKind(loggers'[name], "console")) <= 1
              /\ Cardinality(HandlersOfKind(loggers'[name], "file")) <= 1
        /\ loggers'[log_ret'.name].level = log_ret'.level
      ]_vars

\* C23 witness: a later call with another level and a log file on a logger whose
\* first call installed the console handler only: the level is the new one, the
\* console handler has the level of the first call, and there is no file handler.
C23_Witness ==
    /\ log_ret.name = "harvard_crew"
    /\ log_ret.log_file # ""
    /\ ~log_ret.raised
    /\ loggers["harvard_crew"].level = log_ret.level
    /\ Len(loggers["harvard_crew"].handlers) = 1
    /\ loggers["harvard_crew"].handlers[1].level # log_ret.level
    /\ loggers["harvard_crew"].handlers[1].kind = "console"

-----------------------------------------------------------------------------
(* C24..C28 *)

\* the caller held all four API keys
KeysPresent == _validate_api_keys(run.crew)

\* something failed while the crew was created or run
ExecutionFailed == ~KeysPresent \/ run.fault # "none" \/ ReportRaises(run.results)

\* C24: execute_research does not raise to its caller; when creating or running the
\* crew failed, the mapping it returns holds the key "error"; and with an API key
\* missing no agent and no task was set up.
C24_ExecuteNeverRaises ==
    run.executed =>
        /\ ~run.raised
        /\ ExecutionFailed => "error" \in run.returned.keys
        /\ ~KeysPresent => run.crew.agents = 0 /\ run.crew.tasks = 0 /\ ~run.crew.crew

\* C24 witness: an execution with all keys, agents and tasks set up, whose crew
\* raised when it ran: the mapping returned holds "error" and the topic.
C24_Witness ==
    /\ run.executed
    /\ KeysPresent
    /\ run.fault = "kickoff"
    /\ run.crew.agents = AgentCount
    /\ run.returned.keys = {"error", "research_topic"}

\* C25: the mapping of a batch of N records has N validation results, the one at
\* position k (counted from 0) has citation_id = k and belongs to input record k,
\* and original_count = N, whether or not a record faulted.
C25_ValidationResultsComplete ==
    RunReturned =>
        /\ Len(result.validation_results) = Len(citations)
        /\ result.original_count = Len(citations)
        /\ \A k \in 1..Len(citations) :
              /\ result.validation_results[k].citation_id = k - 1
              /\ IF Faults(citations[k], style)
                 THEN result.validation_results[k].valid = FALSE
                 ELSE result.validation_results[k]
                          = ValidationEntry(k - 1, _validate_citation(citations[k]).value)

\* C25 witness: a returned batch of three records, the first of which faulted and
\* the last of which did not.
C25_Witness ==
    /\ RunReturned
    /\ Len(citations) = 3
    /\ Faults(citations[1], style)
    /\ ~Faults(citations[3], style)
    /\ result.validation_results[3].citation_id = 2
    /\ result.original_count = 3

\* C26: the page announces a successful execution, or shows progress 100, only when
\* execute_research returned a mapping without the key "error".
C26_SuccessOnlyWithoutError ==
    (SuccessText \in screen.messages \/ screen.progress = 100) =>
        run.executed /\ "error" \notin run.returned.keys

\* C27: in the execution summary of a report, tasks_completed is at most
\* total_tasks, completion_percentage is at most 100, and overall_status is
\* "Completed" when all seven stages have non-empty results.
C27_CompletionWithinBounds ==
    (run.executed /\ "summary" \in run.returned.keys) =>
        LET summary == run.returned.execution_summary
        IN  /\ summary.tasks_completed <= summary.total_tasks
            /\ summary.total_tasks = total_tasks
            /\ summary.completion_percentage.num <= 100 * summary.completion_percentage.den
            /\ (\A stage \in Stages :
                    stage \in DOMAIN run.results /\ NonEmpty(run.results[stage]))
                  => summary.overall_status = "Completed"

Saved == {"research_topic", "paper_requirements"}

\* C28: execution_results is in the session only when a topic and requirements were
\* saved; the Results and Download tabs are drawn only when execution_results is in
\* the session and has no key "error"; and 'Reset Progress' takes execution_results
\* and crew out of the session and leaves the saved topic and requirements alone.
C28_SessionOrdering ==
    [][ /\ "execution_results" \in session_state'.present =>
              /\ Saved \subseteq session_state'.present
              /\ strip(session_state'.research_topic) # ""
        /\ screen'.rendered \cap {"Results", "Download"} # {} =>
              /\ "execution_results" \in session_state'.present
              /\ "error" \notin session_state'.execution_results.keys
        /\ run'.button = "Reset Progress" =>
              /\ session_state'.present \cap {"execution_results", "crew"} = {}
              /\ session_state'.present \cap Saved = session_state.present \cap Saved
              /\ session_state'.research_topic = session_state.research_topic
              /\ session_state'.paper_requirements = session_state.paper_requirements
      ]_vars

\* C28 witness: the results of an execution without error are drawn in a later run
\* of the script, for the topic saved before.
C28_Witness ==
    /\ run.button = "none"
    /\ {"Results", "Download"} \subseteq screen.rendered
    /\ Saved \subseteq session_state.present
    /\ session_state.execution_results.research_topic = session_state.research_topic

====
